---- MODULE Spec2Model ----
(***************************************************************************)
(* Model of templateprocessor/md2docx.py: the conversion of the element    *)
(* tree that BeautifulSoup parses from markdown2's HTML into the paragraph *)
(* sequence of a python-docx Document.                                     *)
(*                                                                         *)
(* A text is a sequence of one-character strings, so that strip() and      *)
(* " ".join() are computed character by character.  The tree is the        *)
(* sequence of its nodes in document order; a node is a record             *)
(* [name, parent, text], parent being the position of the parent node and  *)
(* 0 for a top-level node.  A NavigableString has the name NoName (bs4's   *)
(* None) and carries text; a Tag has a name and no text of its own.        *)
(* An <img> carries attrs, each attribute <<>> when absent and <<value>>    *)
(* when present.                                                           *)
(* A block of the document is a record: a paragraph [kind, style, runs,    *)
(* src], a picture [kind, path, width, src] or a table [kind, style, rows, *)
(* src]; src is a history field (the position of the tree node the block   *)
(* was emitted for) that the program does not store.                       *)
(* files is the file system as os.path.exists and add_picture see it: each *)
(* path is absent, an image, or a file add_picture cannot read.            *)
(* other is the frame of a second call of the conversion in the same       *)
(* process.  reader, values and cli are the states of the programs around  *)
(* the conversion: a call of read of one of the readers, a call of         *)
(* cli.get_values_dictionary, and a run of cli.main over its templates.    *)
(***************************************************************************)
EXTENDS Integers, Sequences, FiniteSets, TLC

VARIABLES soup, index, doc, pc, files, base_path, other, reader, cli, values

vars == <<soup, index, doc, pc, files, base_path, other, reader, cli, values>>

\* The variables of a call of markdown_to_word_object and of its environment.
conversion == <<soup, index, doc, pc, files, base_path>>

\* The variables a step of the conversion leaves alone: the frame of the
\* other call of the conversion and the state of the readers and of the
\* command line.
elsewhere == <<other, reader, cli, values>>

\* ---------------------------------------------------------------- bounds
\* Largest number of nodes (tags and strings) of a list tree of SpecList.
MaxNodes == 8

\* Largest number of nodes of a list tree of SpecText.
MaxItemNodes == 7

\* Largest number of nodes of a tree of paragraphs of SpecPara.
MaxParaNodes == 6

\* Largest number of nodes of a document tree of Spec.
MaxTopNodes == 4

\* Largest number of nodes of a tree of image paragraphs of SpecImage.
MaxImageNodes == 3

\* Largest number of nodes of a tree of headings of SpecHead.
MaxHeadNodes == 4

\* Largest number of nodes of a table tree of SpecTable.
MaxTableNodes == 9

\* Largest number of nodes of a tree of one call of SpecCalls.
MaxCallNodes == 2

\* Largest number of calls of markdown_to_word_object that follow the first
\* two in SpecCalls.
MaxCalls == 1

\* Largest number of nodes of a document tree of SpecTerminates.
MaxTermNodes == 3

\* Largest number of elements of the file a reader of SpecReader reads.
MaxElements == 2

\* Largest number of characters of a requirement_ids attribute.
MaxIdChars == 3

\* Largest number of --value options of SpecValues.
MaxPairs == 2

\* Largest number of characters of all --value options together.
MaxArgChars == 5

\* Largest number of --template options of SpecCli.
MaxTemplates == 2

\* ------------------------------------------------------------- the tree
NoName == "None"

NoAttrs == [src |-> <<>>, title |-> <<>>, alt |-> <<>>]

TextNode(parent, t) == [name |-> NoName, parent |-> parent, text |-> t, attrs |-> NoAttrs]

Tag(parent, n) == [name |-> n, parent |-> parent, text |-> <<>>, attrs |-> NoAttrs]

Img(parent, a) == [name |-> "img", parent |-> parent, text |-> <<>>, attrs |-> a]

\* element.children, as positions in document order
RECURSIVE ChildrenFrom(_, _, _)
ChildrenFrom(tree, n, i) ==
    IF i > Len(tree) THEN <<>>
    ELSE (IF tree[i].parent = n THEN <<i>> ELSE <<>>) \o ChildrenFrom(tree, n, i + 1)

Children(tree, n) == ChildrenFrom(tree, n, 1)

\* d lies below n
RECURSIVE IsBelow(_, _, _)
IsBelow(tree, d, n) ==
    /\ d # 0
    /\ \/ tree[d].parent = n
       \/ IsBelow(tree, tree[d].parent, n)

IsSpace(c) == c \in {" ", "\n", "\t"}

RECURSIVE LStrip(_)
LStrip(s) ==
    IF s # <<>> /\ IsSpace(Head(s)) THEN LStrip(Tail(s)) ELSE s

RECURSIVE RStrip(_)
RStrip(s) ==
    IF s # <<>> /\ IsSpace(s[Len(s)]) THEN RStrip(SubSeq(s, 1, Len(s) - 1)) ELSE s

\* str.strip()
Strip(s) == RStrip(LStrip(s))

\* get_text(strip=True): every string of the element (itself, when it is a
\* string), in document order, stripped, concatenated with no separator.
RECURSIVE StrippedStringsFrom(_, _, _)
StrippedStringsFrom(tree, n, i) ==
    IF i > Len(tree) THEN <<>>
    ELSE (IF tree[i].name = NoName /\ (i = n \/ IsBelow(tree, i, n))
          THEN Strip(tree[i].text) ELSE <<>>)
         \o StrippedStringsFrom(tree, n, i + 1)

get_element_text(tree, element) == StrippedStringsFrom(tree, element, 1)

\* " ".join(parts)
RECURSIVE JoinSpace(_)
JoinSpace(parts) ==
    IF parts = <<>> THEN <<>>
    ELSE IF Len(parts) = 1 THEN parts[1]
    ELSE parts[1] \o <<" ">> \o JoinSpace(Tail(parts))

\* element.find(name, recursive=False): the first direct child with that
\* name, 0 (None) when there is none.
FindDirect(tree, element, n) ==
    LET hits == SelectSeq(Children(tree, element), LAMBDA c : tree[c].name = n)
    IN IF hits = <<>> THEN 0 ELSE Head(hits)

\* ------------------------------------------------------------ the blocks
Run(t, b, i) == [text |-> t, bold |-> b, italic |-> i]

\* doc.add_paragraph(text, style=style): one paragraph; python-docx adds a
\* run only for a non-empty text.
AddParagraph(t, style, node) ==
    [kind |-> "paragraph", style |-> style,
     runs |-> IF t = <<>> THEN <<>> ELSE <<Run(t, FALSE, FALSE)>>,
     src |-> node]

\* md2docx.py:96: the paragraph styles of python-docx's default template,
\* the document Document() opens.  Naming any other style raises KeyError.
TemplateStyles ==
    {"Normal", "Caption", "Heading 1", "Heading 2", "Heading 3",
     "List Bullet", "List Bullet 2", "List Bullet 3",
     "List Number", "List Number 2", "List Number 3"}

\* The blocks of a handler that reach the document: those before the first
\* one whose style the template lacks (the call that raises).
UnknownStyle(block) == block.kind = "paragraph" /\ block.style \notin TemplateStyles

Added(blocks) ==
    LET bad == {i \in DOMAIN blocks : UnknownStyle(blocks[i])}
    IN IF bad = {} THEN blocks
       ELSE SubSeq(blocks, 1, (CHOOSE i \in bad : \A j \in bad : i <= j) - 1)

Raises(blocks) == \E i \in DOMAIN blocks : UnknownStyle(blocks[i])

\* A document whose new blocks go to the front.
Emit_Prepend(document, blocks) == Added(blocks) \o document

\* doc.add_paragraph, doc.add_heading, ...: a block goes to the end
Emit(document, blocks) == document \o Added(blocks)

\* ------------------------------------------------------ process_list_items
\* ItemTextParts without the test of line 39: the nested lists' text too
ItemTextParts_AllChildren(tree, li) ==
    LET keep == Children(tree, li)
    IN [k \in 1..Len(keep) |-> get_element_text(tree, keep[k])]

\* md2docx.py:37-40
ItemTextParts(tree, li) ==
    LET keep == SelectSeq(Children(tree, li), LAMBDA child : tree[child].name \notin {"ul", "ol"})
    IN [k \in 1..Len(keep) |-> get_element_text(tree, keep[k])]

\* md2docx.py:42
ItemText(tree, li) == Strip(JoinSpace(ItemTextParts(tree, li)))

\* ListStyle without the level: every item in the base style
ListStyle_BaseOnly(style_base, level) == style_base

\* md2docx.py:46
ListStyle(style_base, level) ==
    IF level = 0 THEN style_base ELSE style_base \o " " \o ToString(level + 1)

\* md2docx.py:45-47
ItemBlocks(tree, li, style_base, level) ==
    LET text == ItemText(tree, li)
    IN IF text # <<>> THEN <<AddParagraph(text, ListStyle(style_base, level), li)>>
       ELSE <<>>

\* NestedLevel without the increment: nested items at their parent's level
NestedLevel_Same(level) == level

\* md2docx.py:54, 56: the level handed to the recursion
NestedLevel(level) == level + 1

\* md2docx.py:35: find_all("li", recursive=False)
DirectItems(tree, list_element) ==
    SelectSeq(Children(tree, list_element), LAMBDA c : tree[c].name = "li")

\* md2docx.py:50-51: the nested lists the item's recursion visits, in the
\* order it visits them, each with its style base
NestedLists(tree, li) ==
    LET nested_ul == FindDirect(tree, li, "ul")
        nested_ol == FindDirect(tree, li, "ol")
    IN (IF nested_ul # 0 THEN <<<<nested_ul, "List Bullet">>>> ELSE <<>>)
       \o (IF nested_ol # 0 THEN <<<<nested_ol, "List Number">>>> ELSE <<>>)

RECURSIVE process_list_items(_, _, _, _)
RECURSIVE ProcessItems(_, _, _, _)
RECURSIVE ProcessNested(_, _, _)

\* md2docx.py:53-56
ProcessNested(tree, nested, level) ==
    IF nested = <<>> THEN <<>>
    ELSE process_list_items(tree, Head(nested)[1], Head(nested)[2], NestedLevel(level))
         \o ProcessNested(tree, Tail(nested), level)

\* ProcessItems with the nested lists handled before the item's own text
ProcessItems_NestedFirst(tree, items, style_base, level) ==
    IF items = <<>> THEN <<>>
    ELSE ProcessNested(tree, NestedLists(tree, Head(items)), level)
         \o ItemBlocks(tree, Head(items), style_base, level)
         \o ProcessItems(tree, Tail(items), style_base, level)

\* md2docx.py:35-56, the loop over the items
ProcessItems(tree, items, style_base, level) ==
    IF items = <<>> THEN <<>>
    ELSE ItemBlocks(tree, Head(items), style_base, level)
         \o ProcessNested(tree, NestedLists(tree, Head(items)), level)
         \o ProcessItems(tree, Tail(items), style_base, level)

process_list_items(tree, list_element, style_base, level) ==
    ProcessItems(tree, DirectItems(tree, list_element), style_base, level)

\* ----------------------------------------------- the runs of a paragraph
\* Tag.text, get_text(): every string below the element, in document order,
\* as it is.
RECURSIVE StringsFrom(_, _, _)
StringsFrom(tree, n, i) ==
    IF i > Len(tree) THEN <<>>
    ELSE (IF tree[i].name = NoName /\ IsBelow(tree, i, n) THEN tree[i].text ELSE <<>>)
         \o StringsFrom(tree, n, i + 1)

TagText(tree, element) == StringsFrom(tree, element, 1)

\* RunOfString with the string trimmed first
RunOfString_Stripped(tree, child) == Run(Strip(tree[child].text), FALSE, FALSE)

\* md2docx.py:123, for a string: add_run(child) keeps the string as it is
RunOfString(tree, child) == Run(tree[child].text, FALSE, FALSE)

\* md2docx.py:123, for a tag: python-docx's add_run iterates over its text
\* argument, and iterating over a Tag gives its children.  A child that is a
\* string is taken whole; a child that is a Tag fails the test
\* `char in "\r\n"` with TypeError.
TagRunRaises(tree, child) ==
    \E c \in DOMAIN tree : tree[c].parent = child /\ tree[c].name # NoName

RECURSIVE DirectStringsFrom(_, _, _)
DirectStringsFrom(tree, n, i) ==
    IF i > Len(tree) THEN <<>>
    ELSE (IF tree[i].name = NoName /\ tree[i].parent = n THEN tree[i].text ELSE <<>>)
         \o DirectStringsFrom(tree, n, i + 1)

RunOfTag(tree, child) == Run(DirectStringsFrom(tree, child, 1), FALSE, FALSE)

\* md2docx.py:118-123: the run of one child
RunOf(tree, child) ==
    CASE tree[child].name = "strong" -> Run(TagText(tree, child), TRUE, FALSE)
      [] tree[child].name = "em" -> Run(TagText(tree, child), FALSE, TRUE)
      [] tree[child].name = NoName -> RunOfString(tree, child)
      [] OTHER -> RunOfTag(tree, child)

\* md2docx.py:118-123: the child's add_run raises
RunRaises(tree, child) ==
    /\ tree[child].name \notin {"strong", "em", NoName}
    /\ TagRunRaises(tree, child)

\* md2docx.py:117-123: the runs of the children, up to the first child whose
\* add_run raises; that child leaves the empty run add_run had made.
RECURSIVE RunsOf(_, _)
RunsOf(tree, children) ==
    IF children = <<>> THEN <<>>
    ELSE IF RunRaises(tree, Head(children)) THEN <<Run(<<>>, FALSE, FALSE)>>
    ELSE <<RunOf(tree, Head(children))>> \o RunsOf(tree, Tail(children))

\* md2docx.py:116-123: doc.add_paragraph() and its runs
ParagraphBlock(tree, element) ==
    [kind |-> "paragraph", style |-> "Normal",
     runs |-> RunsOf(tree, Children(tree, element)), src |-> element]

ParagraphRaises(tree, element) ==
    \E c \in DOMAIN tree : tree[c].parent = element /\ RunRaises(tree, c)

\* md2docx.py:111: element.find("img"), 0 (None) when there is none
FindImg(tree, element) ==
    LET hits == {i \in DOMAIN tree : tree[i].name = "img" /\ IsBelow(tree, i, element)}
    IN IF hits = {} THEN 0 ELSE CHOOSE i \in hits : \A j \in hits : i <= j

\* ------------------------------------------------------------ embed_image
IMAGE_WIDTH_IN_INCHES == 6

\* A file system where every path exists.
Exists_Always(fs, path) == TRUE

\* os.path.exists
Exists(fs, path) == path \in DOMAIN fs /\ fs[path] # "absent"

\* os.path.join of a directory and a relative path
JoinPath(base, path) == base \o "/" \o path

\* CaptionText with the alt text looked at first
CaptionText_AltFirst(attrs) ==
    LET img_title == IF attrs.title = <<>> THEN <<>> ELSE Strip(attrs.title[1])
        img_alt == IF attrs.alt = <<>> THEN <<>> ELSE Strip(attrs.alt[1])
    IN IF img_alt # <<>> THEN img_alt ELSE img_title

\* md2docx.py:61-65: the title, trimmed, or else the alt text, trimmed
CaptionText(attrs) ==
    LET img_title == IF attrs.title = <<>> THEN <<>> ELSE Strip(attrs.title[1])
        img_alt == IF attrs.alt = <<>> THEN <<>> ELSE Strip(attrs.alt[1])
    IN IF img_title # <<>> THEN img_title ELSE img_alt

\* ImagePath with the path below base tried first
ImagePath_BaseFirst(fs, base, img_src) ==
    IF base # "" /\ Exists(fs, JoinPath(base, img_src)) THEN JoinPath(base, img_src)
    ELSE img_src

\* md2docx.py:69-71: the path as it is, or below base when that is given and
\* the path as it is does not exist
ImagePath(fs, base, img_src) ==
    IF ~Exists(fs, img_src) /\ base # "" THEN JoinPath(base, img_src) ELSE img_src

\* A character XML cannot hold (it stands for U+0001): setting it as the
\* text of a run raises ValueError in lxml.
CTRL == "^A"

XmlCompatible(t) == \A k \in DOMAIN t : t[k] # CTRL

\* What a python-docx call leaves in the document when it raises after it
\* has appended its paragraph: Document.add_picture appends a paragraph with
\* an empty run and then loads the file into it; add_paragraph(text) appends
\* the paragraph and its run and then sets the text.
AbandonedParagraph(node) ==
    [kind |-> "paragraph", style |-> "Normal",
     runs |-> <<Run(<<>>, FALSE, FALSE)>>, src |-> node]

\* The picture without the caption paragraph that follows it.
PictureBlocks_NoCaption(path, caption_text, img) ==
    <<[kind |-> "picture", path |-> path, width |-> IMAGE_WIDTH_IN_INCHES, src |-> img]>>

\* md2docx.py:75-78: the picture and, with a caption text, its caption; a
\* caption text that raises leaves the picture and ends the try block
PictureBlocks(path, caption_text, img) ==
    <<[kind |-> "picture", path |-> path, width |-> IMAGE_WIDTH_IN_INCHES, src |-> img]>>
    \o (IF caption_text = <<>> THEN <<>>
        ELSE IF XmlCompatible(caption_text)
        THEN <<[kind |-> "paragraph", style |-> "Caption",
                runs |-> <<Run(caption_text, FALSE, FALSE)>>, src |-> img]>>
        ELSE <<AbandonedParagraph(img)>>)

\* md2docx.py:59-81: nothing without a src, nothing when the file is not
\* found; when add_picture raises on the file the exception is caught and
\* logged, and the paragraph add_picture had appended stays
embed_image(tree, img, fs, base) ==
    LET attrs == tree[img].attrs
    IN IF attrs.src = <<>> \/ attrs.src = <<"">> THEN <<>>
       ELSE LET image_path == ImagePath(fs, base, attrs.src[1])
            IN IF ~Exists(fs, image_path) THEN <<>>
               ELSE IF fs[image_path] = "image"
               THEN PictureBlocks(image_path, CaptionText(attrs), img)
               ELSE <<AbandonedParagraph(img)>>

\* ------------------------------------------------------------- the tables
\* element.find_all(names): the nodes below the element with one of the
\* names, in document order
RECURSIVE FindAllFrom(_, _, _, _)
FindAllFrom(tree, element, names, i) ==
    IF i > Len(tree) THEN <<>>
    ELSE (IF tree[i].name \in names /\ IsBelow(tree, i, element) THEN <<i>> ELSE <<>>)
         \o FindAllFrom(tree, element, names, i + 1)

FindAll(tree, element, names) == FindAllFrom(tree, element, names, 1)

\* md2docx.py:131-132: the trimmed texts of the cells of a row
RowData(tree, row) ==
    LET cells == FindAll(tree, row, {"th", "td"})
    IN [c \in DOMAIN cells |-> get_element_text(tree, cells[c])]

\* RowsData without the test of line 133: the rows without a cell too
RowsData_KeepEmpty(tree, element) ==
    LET rows == FindAll(tree, element, {"tr"})
    IN [r \in DOMAIN rows |-> RowData(tree, rows[r])]

\* md2docx.py:129-134: the rows that have a cell
RowsData(tree, element) ==
    LET rows == FindAll(tree, element, {"tr"})
        data == [r \in DOMAIN rows |-> RowData(tree, rows[r])]
    IN SelectSeq(data, LAMBDA row_data : row_data # <<>>)

\* HasHeader with a header cell looked for in every row
HasHeader_AnyRow(tree, element) == FindAll(tree, element, {"th"}) # <<>>

\* md2docx.py:147-148: the first row of the table has a header cell
HasHeader(tree, element) ==
    LET rows == FindAll(tree, element, {"tr"})
    IN rows # <<>> /\ FindAll(tree, Head(rows), {"th"}) # <<>>

\* md2docx.py:137-152: the grid of len(rows_data) rows and columns_count
\* columns; a cell holds the run its text was set to, none when its row has
\* no text for it; the runs of the first row are bold under a header.
TableRows(tree, element) ==
    LET rows_data == RowsData(tree, element)
        columns_count == Len(rows_data[1])
    IN [r \in DOMAIN rows_data |->
           [c \in 1..columns_count |->
               IF c <= Len(rows_data[r])
               THEN <<Run(rows_data[r][c], r = 1 /\ HasHeader(tree, element), FALSE)>>
               ELSE <<>>]]

\* md2docx.py:128-152
TableBlocks(tree, element) ==
    IF RowsData(tree, element) = <<>> THEN <<>>
    ELSE <<[kind |-> "table", style |-> "Table Grid",
            rows |-> TableRows(tree, element), src |-> element]>>

\* ------------------------------------------------------------ the headings
\* HeadingBlocks with the text trimmed
HeadingBlocks_Trimmed(tree, element, level) ==
    <<AddParagraph(Strip(TagText(tree, element)), "Heading " \o ToString(level), element)>>

\* md2docx.py:103-108: doc.add_heading(element.text, level)
HeadingBlocks(tree, element, level) ==
    <<AddParagraph(TagText(tree, element), "Heading " \o ToString(level), element)>>

\* ------------------------------------------------------------- the inputs
\* The ancestors-or-self of the last node: where the parser can attach the
\* next node in document order (0: at the top level).
RECURSIVE Spine(_, _)
Spine(tree, n) ==
    IF n = 0 THEN {0} ELSE {n} \cup Spine(tree, tree[n].parent)

OpenNodes(tree) == Spine(tree, Len(tree))

NameAt(tree, n) == IF n = 0 THEN "[document]" ELSE tree[n].name

Strings(parent, texts) == {TextNode(parent, t) : t \in texts}

Tags(parent, names) == {Tag(parent, n) : n \in names}

ListTexts == {<<"a">>}

\* The nodes the parser can attach to parent in a tree of nested lists: one
\* top-level list, items in lists, strings and lists in items.
ListGrammar(tree, parent) ==
    CASE NameAt(tree, parent) = "[document]" ->
            IF tree = <<>> THEN Tags(parent, {"ul", "ol"}) ELSE {}
      [] NameAt(tree, parent) \in {"ul", "ol"} -> Tags(parent, {"li"})
      [] NameAt(tree, parent) = "li" ->
            Tags(parent, {"ul", "ol"}) \cup Strings(parent, ListTexts)
      [] OTHER -> {}

ItemTexts == {<<"a">>, <<" ", "b", " ">>, <<"\n">>}

InlineTexts == {<<" ", "c">>}

NestedTexts == {<<"n">>}

\* The nodes the parser can attach to parent in a tree of one top-level list
\* whose items hold strings with and without surrounding whitespace, <strong>
\* elements and nested lists, the list itself holding whitespace between
\* its items; the strings of the nested lists are told apart by their letter.
ItemGrammar(tree, parent) ==
    LET name == NameAt(tree, parent)
        top == parent # 0 /\ tree[parent].parent = 0
        inTop == parent # 0 /\ tree[parent].parent # 0
                            /\ tree[tree[parent].parent].parent = 0
    IN CASE name = "[document]" ->
               IF tree = <<>> THEN Tags(parent, {"ul"}) ELSE {}
         [] name \in {"ul", "ol"} /\ top ->
               Tags(parent, {"li"}) \cup Strings(parent, {<<"\n">>})
         [] name \in {"ul", "ol"} /\ ~top -> Tags(parent, {"li"})
         [] name = "li" /\ inTop ->
               Tags(parent, {"ul", "ol", "strong"}) \cup Strings(parent, ItemTexts)
         [] name = "li" /\ ~inTop -> Strings(parent, NestedTexts)
         [] name = "strong" -> Strings(parent, InlineTexts)
         [] OTHER -> {}

\* ------------------------------------------------------------ the actions
\* The parser joins the text between two tags into one string: a string
\* never follows a string below the same parent.
FollowsString(tree, node) ==
    /\ node.name = NoName
    /\ tree # <<>>
    /\ tree[Len(tree)].name = NoName
    /\ tree[Len(tree)].parent = node.parent

ParaTexts == {<<"a">>, <<" ", "b", " ">>}

\* The nodes the parser can attach to parent in a tree of paragraphs: strings,
\* <strong>, <em>, <code> and <a> in a paragraph, strings in those, and
\* <strong> in <a> also (a link with bold text).
ParaGrammar(tree, parent) ==
    LET name == NameAt(tree, parent)
    IN CASE name = "[document]" -> Tags(parent, {"p"})
         [] name = "p" ->
               Tags(parent, {"strong", "em", "code", "a"}) \cup Strings(parent, ParaTexts)
         [] name \in {"strong", "em", "code"} -> Strings(parent, {<<"a">>})
         [] name = "a" -> Tags(parent, {"strong"}) \cup Strings(parent, {<<"a">>})
         [] OTHER -> {}

\* The attributes of the images of a document tree: a src that names the
\* picture, with or without a title.
ImgAttrs ==
    {[src |-> <<"pic.png">>, title |-> t, alt |-> <<>>] : t \in {<<>>, <<<<"a">>>>}}

\* The nodes the parser can attach to parent in a document tree: headings
\* of level 1 to 3, paragraphs, lists, tables and strings at the top level,
\* the paragraphs holding strings and images, the items strings, the tables
\* rows of header and data cells.
TopGrammar(tree, parent) ==
    LET name == NameAt(tree, parent)
    IN CASE name = "[document]" ->
               Tags(parent, {"h1", "h2", "h3", "p", "ul", "ol", "table"})
               \cup Strings(parent, {<<"\n">>})
         [] name \in {"h1", "h2", "h3", "li", "th", "td"} ->
               Strings(parent, {<<"a">>})
         [] name = "p" -> Strings(parent, {<<"a">>}) \cup {Img(parent, a) : a \in ImgAttrs}
         [] name \in {"ul", "ol"} -> Tags(parent, {"li"})
         [] name = "table" -> Tags(parent, {"tr"})
         [] name = "tr" -> Tags(parent, {"th", "td"})
         [] OTHER -> {}

\* The attributes of the images of a tree of image paragraphs: the src
\* missing, empty or naming the picture; the title missing, blank, a text
\* with whitespace at its end or a text that XML cannot hold; the alt text
\* missing or a text with whitespace at its start.
ImageParagraphAttrs ==
    [src : {<<>>, <<"">>, <<"pic.png">>},
     title : {<<>>, << <<" ">> >>, << <<"t", " ">> >>, << <<"t", CTRL>> >>},
     alt : {<<>>, << <<" ", "a">> >>}]

\* The nodes the parser can attach to parent in a tree of image paragraphs:
\* paragraphs that hold an image, a string, or both.
ImageGrammar(tree, parent) ==
    LET name == NameAt(tree, parent)
    IN CASE name = "[document]" -> Tags(parent, {"p"})
         [] name = "p" ->
               Strings(parent, {<<"a">>}) \cup {Img(parent, a) : a \in ImageParagraphAttrs}
         [] OTHER -> {}

HeadTexts == {<<"a">>, <<" ", "b">>}

\* The nodes the parser can attach to parent in a tree of headings: headings
\* of level 1 to 4, block quotes, paragraphs and whitespace at the top level;
\* strings and <em> in a heading, a paragraph in a block quote.
HeadGrammar(tree, parent) ==
    LET name == NameAt(tree, parent)
    IN CASE name = "[document]" ->
               Tags(parent, {"h1", "h2", "h3", "h4", "blockquote", "p"})
               \cup Strings(parent, {<<"\n">>})
         [] name \in {"h1", "h2", "h3", "h4"} ->
               Tags(parent, {"em"}) \cup Strings(parent, HeadTexts)
         [] name = "blockquote" -> Tags(parent, {"p"})
         [] name \in {"p", "em"} -> Strings(parent, {<<"a">>})
         [] OTHER -> {}

CellTexts == {<<"a", " ">>}

\* The nodes the parser can attach to parent in a tree of one table: rows
\* with any number of header and data cells, none included, a cell empty or
\* holding a string that ends in whitespace, a <strong> element, or both.
TableGrammar(tree, parent) ==
    LET name == NameAt(tree, parent)
    IN CASE name = "[document]" ->
               IF tree = <<>> THEN Tags(parent, {"table"}) ELSE {}
         [] name = "table" -> Tags(parent, {"tr"})
         [] name = "tr" -> Tags(parent, {"th", "td"})
         [] name \in {"th", "td"} ->
               Tags(parent, {"strong"}) \cup Strings(parent, CellTexts)
         [] name = "strong" -> Strings(parent, {<<"b">>})
         [] OTHER -> {}

\* The nodes the parser can attach to parent in the tree of one of several
\* calls: headings and paragraphs, a string in a heading, a string or an
\* image in a paragraph.
CallGrammar(tree, parent) ==
    LET name == NameAt(tree, parent)
    IN CASE name = "[document]" -> Tags(parent, {"h1", "p"})
         [] name = "h1" -> Strings(parent, {<<"a">>})
         [] name = "p" ->
               Strings(parent, {<<"a">>})
               \cup {Img(parent, [NoAttrs EXCEPT !.src = <<"pic.png">>])}
         [] OTHER -> {}

\* The nodes the parser can attach to parent in a document tree with nested
\* lists: headings, paragraphs, lists, tables and strings at the top level,
\* strings and lists in the items, strings and images in the paragraphs,
\* rows of data cells in the tables.
TermGrammar(tree, parent) ==
    LET name == NameAt(tree, parent)
    IN CASE name = "[document]" ->
               Tags(parent, {"h1", "p", "ul", "ol", "table"})
               \cup Strings(parent, {<<"\n">>})
         [] name \in {"ul", "ol"} -> Tags(parent, {"li"})
         [] name = "li" -> Tags(parent, {"ul"}) \cup Strings(parent, {<<"a">>})
         [] name = "p" ->
               Strings(parent, {<<"a">>})
               \cup {Img(parent, [NoAttrs EXCEPT !.src = <<"pic.png">>])}
         [] name = "table" -> Tags(parent, {"tr"})
         [] name = "tr" -> Tags(parent, {"td"})
         [] OTHER -> {}

\* The nodes the parser can attach to parent, by the kind of tree parsed.
Grammar(kind, tree, parent) ==
    CASE kind = "list" -> ListGrammar(tree, parent)
      [] kind = "item" -> ItemGrammar(tree, parent)
      [] kind = "para" -> ParaGrammar(tree, parent)
      [] kind = "top" -> TopGrammar(tree, parent)
      [] kind = "table" -> TableGrammar(tree, parent)
      [] kind = "image" -> ImageGrammar(tree, parent)
      [] kind = "head" -> HeadGrammar(tree, parent)
      [] kind = "call" -> CallGrammar(tree, parent)
      [] kind = "term" -> TermGrammar(tree, parent)

\* md2docx.py:93-99: the parser appends the next node of the tree, in
\* document order, below one of the elements still open
Parse(kind, max) ==
    /\ pc = "parse"
    /\ Len(soup) < max
    /\ \E parent \in OpenNodes(soup) :
         \E node \in Grammar(kind, soup, parent) :
            /\ ~FollowsString(soup, node)
            /\ soup' = Append(soup, node)
    /\ UNCHANGED <<index, doc, pc, files, base_path, elsewhere>>

ParseListNode == Parse("list", MaxNodes)

ParseItemNode == Parse("item", MaxItemNodes)

ParseParaNode == Parse("para", MaxParaNodes)

ParseTopNode == Parse("top", MaxTopNodes)

ParseTableNode == Parse("table", MaxTableNodes)

ParseImageNode == Parse("image", MaxImageNodes)

ParseHeadNode == Parse("head", MaxHeadNodes)

ParseCallNode == Parse("call", MaxCallNodes)

ParseTermNode == Parse("term", MaxTermNodes)

\* StartLoop with the document of the call before kept
StartLoop_KeepDoc ==
    /\ pc = "parse"
    /\ pc' = "loop"
    /\ index' = 1
    /\ UNCHANGED <<soup, doc, files, base_path, elsewhere>>

\* md2docx.py:96, 102: the new document, and the loop over the top level
StartLoop ==
    /\ pc = "parse"
    /\ pc' = "loop"
    /\ index' = 1
    /\ doc' = <<>>
    /\ UNCHANGED <<soup, files, base_path, elsewhere>>

TopLevel == Children(soup, 0)

\* ConvertUl with the list visited again and again
ConvertUl_Revisit ==
    /\ pc = "loop"
    /\ index <= Len(TopLevel)
    /\ soup[TopLevel[index]].name = "ul"
    /\ UNCHANGED <<soup, index, doc, pc, files, base_path, elsewhere>>

\* md2docx.py:124-125
ConvertUl ==
    /\ pc = "loop"
    /\ index <= Len(TopLevel)
    /\ soup[TopLevel[index]].name = "ul"
    /\ LET blocks == process_list_items(soup, TopLevel[index], "List Bullet", 0)
       IN /\ doc' = Emit(doc, blocks)
          /\ pc' = IF Raises(blocks) THEN "raised" ELSE pc
          /\ index' = IF Raises(blocks) THEN index ELSE index + 1
    /\ UNCHANGED <<soup, files, base_path, elsewhere>>

\* md2docx.py:126-127
ConvertOl ==
    /\ pc = "loop"
    /\ index <= Len(TopLevel)
    /\ soup[TopLevel[index]].name = "ol"
    /\ LET blocks == process_list_items(soup, TopLevel[index], "List Number", 0)
       IN /\ doc' = Emit(doc, blocks)
          /\ pc' = IF Raises(blocks) THEN "raised" ELSE pc
          /\ index' = IF Raises(blocks) THEN index ELSE index + 1
    /\ UNCHANGED <<soup, files, base_path, elsewhere>>

\* md2docx.py:109-123, a paragraph without an image
ConvertParagraph ==
    /\ pc = "loop"
    /\ index <= Len(TopLevel)
    /\ soup[TopLevel[index]].name = "p"
    /\ FindImg(soup, TopLevel[index]) = 0
    /\ doc' = Emit(doc, <<ParagraphBlock(soup, TopLevel[index])>>)
    /\ pc' = IF ParagraphRaises(soup, TopLevel[index]) THEN "raised" ELSE pc
    /\ index' = IF ParagraphRaises(soup, TopLevel[index]) THEN index ELSE index + 1
    /\ UNCHANGED <<soup, files, base_path, elsewhere>>

\* md2docx.py:103-108
ConvertHeading ==
    /\ pc = "loop"
    /\ index <= Len(TopLevel)
    /\ \E level \in 1..3 :
          /\ soup[TopLevel[index]].name = "h" \o ToString(level)
          /\ doc' = Emit(doc, HeadingBlocks(soup, TopLevel[index], level))
    /\ index' = index + 1
    /\ UNCHANGED <<soup, pc, files, base_path, elsewhere>>

\* md2docx.py:109-113, a paragraph with an image
ConvertImageParagraph ==
    /\ pc = "loop"
    /\ index <= Len(TopLevel)
    /\ soup[TopLevel[index]].name = "p"
    /\ FindImg(soup, TopLevel[index]) # 0
    /\ doc' = Emit(doc, embed_image(soup, FindImg(soup, TopLevel[index]), files, base_path))
    /\ index' = index + 1
    /\ UNCHANGED <<soup, pc, files, base_path, elsewhere>>

\* md2docx.py:128-152
ConvertTable ==
    /\ pc = "loop"
    /\ index <= Len(TopLevel)
    /\ soup[TopLevel[index]].name = "table"
    /\ doc' = Emit(doc, TableBlocks(soup, TopLevel[index]))
    /\ index' = index + 1
    /\ UNCHANGED <<soup, pc, files, base_path, elsewhere>>

\* SkipElement with the element treated as a paragraph
SkipElement_AsParagraph ==
    /\ pc = "loop"
    /\ index <= Len(TopLevel)
    /\ soup[TopLevel[index]].name \notin {"h1", "h2", "h3", "p", "ul", "ol", "table"}
    /\ doc' = Emit(doc, <<ParagraphBlock(soup, TopLevel[index])>>)
    /\ index' = index + 1
    /\ UNCHANGED <<soup, pc, files, base_path, elsewhere>>

\* md2docx.py:102-128: an element with none of the names the loop tests for
SkipElement ==
    /\ pc = "loop"
    /\ index <= Len(TopLevel)
    /\ soup[TopLevel[index]].name \notin {"h1", "h2", "h3", "p", "ul", "ol", "table"}
    /\ index' = index + 1
    /\ UNCHANGED <<soup, doc, pc, files, base_path, elsewhere>>

\* md2docx.py:154
Return ==
    /\ pc = "loop"
    /\ index > Len(TopLevel)
    /\ pc' = "returned"
    /\ UNCHANGED <<soup, index, doc, files, base_path, elsewhere>>

\* -------------------------------------------------------------- the readers
\* reader is the state of one call of read of SOReader, DVReader or IVReader:
\* the path exists or not; elements are the elements of the file at the
\* path in document order, each with its tag and the text of its
\* requirement_ids attribute (<<>> when the attribute is absent or empty);
\* result is <<>> (no object) or <<the model object>>.  A parsed object has
\* the history field src, the position of the element it was parsed from.
ReaderKinds == {"SOReader", "DVReader", "IVReader"}

\* The elements at the top of a file and the elements within them that the
\* model writes: functions and their provided interfaces in an Interface
\* View, nodes and their devices in a Deployment View, rows in a CSV file.
OuterTag(kind) ==
    CASE kind = "IVReader" -> "Function"
      [] kind = "DVReader" -> "Node"
      [] kind = "SOReader" -> "row"

InnerTags(kind) ==
    CASE kind = "IVReader" -> {"Provided_Interface"}
      [] kind = "DVReader" -> {"Device"}
      [] kind = "SOReader" -> {}

IdChars == {"1", ","}

\* str.split(sep)
RECURSIVE SplitFrom(_, _, _, _)
SplitFrom(text, sep, piece, i) ==
    IF i > Len(text) THEN <<piece>>
    ELSE IF text[i] = sep THEN <<piece>> \o SplitFrom(text, sep, <<>>, i + 1)
    ELSE SplitFrom(text, sep, Append(piece, text[i]), i + 1)

Split(text, sep) == SplitFrom(text, sep, <<>>, 1)

NotEmpty(text) == text # <<>>

\* dvreader.py:98-103, 151-156: the comma-separated IDs of the attribute,
\* trimmed, the empty ones left out
RequirementIds(req_ids_str) ==
    IF req_ids_str = <<>> THEN <<>>
    ELSE LET pieces == Split(req_ids_str, ",")
         IN SelectSeq([i \in DOMAIN pieces |-> Strip(pieces[i])], NotEmpty)

\* elem.findall(tag) for the element at position k: its children with the
\* tag, which follow it up to the next element at the top
findall(elements, k, tag) ==
    SelectSeq([j \in 1..Len(elements) |-> j],
              LAMBDA j : /\ j > k
                         /\ elements[j].tag = tag
                         /\ \A m \in (k + 1)..j : elements[m].tag = tag)

\* root.findall(tag): the elements at the top with the tag
root_findall(elements, tag) ==
    SelectSeq([j \in 1..Len(elements) |-> j], LAMBDA j : elements[j].tag = tag)

\* ivreader.py:171-208, 210-213: the interface of an element that has the
\* kind Sporadic and no other attribute the reader looks at
ParseInterface(elements, j) ==
    [id |-> "", name |-> "", kind |-> "Sporadic", enable_multicast |-> TRUE,
     layer |-> "default", src |-> j]

\* ivreader.py:116-169: the function of an element that has none of the
\* attributes the reader looks at, with its provided interfaces
ParseFunction(elements, k) ==
    LET interfaces == findall(elements, k, "Provided_Interface")
    IN [id |-> "", name |-> "", is_type |-> FALSE, default_implementation |-> "default",
        provided_interfaces |->
            [i \in DOMAIN interfaces |-> ParseInterface(elements, interfaces[i])],
        src |-> k]

\* ivreader.py:85-114
ParseInterfaceView(elements) ==
    LET functions == root_findall(elements, "Function")
    IN [type |-> "InterfaceView",
        functions |-> [i \in DOMAIN functions |-> ParseFunction(elements, functions[i])]]

\* dvreader.py:148-171
ParseDevice(elements, j) ==
    [id |-> "", name |-> "",
     requirement_ids |-> RequirementIds(elements[j].requirement_ids), src |-> j]

\* dvreader.py:95-124
ParseNode(elements, k) ==
    LET devices == findall(elements, k, "Device")
    IN [id |-> "", name |-> "",
        requirement_ids |-> RequirementIds(elements[k].requirement_ids),
        devices |-> [i \in DOMAIN devices |-> ParseDevice(elements, devices[i])],
        src |-> k]

\* dvreader.py:73-93
ParseDeploymentView(elements) ==
    LET nodes == root_findall(elements, "Node")
    IN [type |-> "DeploymentView",
        nodes |-> [i \in DOMAIN nodes |-> ParseNode(elements, nodes[i])]]

\* soreader.py:76-107: a file with the header requirement_ids and one value
\* in each row
ParseCsv(elements) ==
    [type |-> "SystemObjectType",
     property_names |-> <<"requirement_ids">>,
     instances |-> [i \in DOMAIN elements |->
                       [values |-> [requirement_ids |-> elements[i].requirement_ids],
                        src |-> i]]]

\* The state of a reader before SpecReader sets it.
NoReader ==
    [kind |-> "IVReader", exists |-> FALSE, elements |-> <<>>, pc |-> "file",
     error |-> "None", result |-> <<>>]

\* The file at the path gets one more element, at the top or within the
\* last element at the top
WriteElement ==
    /\ reader.pc = "file"
    /\ reader.exists
    /\ Len(reader.elements) < MaxElements
    /\ \E tag \in {OuterTag(reader.kind)}
                  \cup (IF reader.elements = <<>> THEN {} ELSE InnerTags(reader.kind)) :
          reader' = [reader EXCEPT
                        !.elements = Append(@, [tag |-> tag, requirement_ids |-> <<>>])]
    /\ UNCHANGED <<conversion, other, cli, values>>

\* The requirement_ids attribute of the last element of the file gets one
\* more character
WriteIdChar ==
    /\ reader.pc = "file"
    /\ reader.elements # <<>>
    /\ Len(reader.elements[Len(reader.elements)].requirement_ids) < MaxIdChars
    /\ \E c \in IdChars :
          reader' = [reader EXCEPT
                        !.elements[Len(reader.elements)].requirement_ids = Append(@, c)]
    /\ UNCHANGED <<conversion, other, cli, values>>

\* ReadCheck without the test of the path
ReadCheck_Skipped ==
    /\ reader.pc = "file"
    /\ reader' = [reader EXCEPT !.pc = "open"]
    /\ UNCHANGED <<conversion, other, cli, values>>

\* soreader.py:52-54, dvreader.py:49-51, ivreader.py:60-62: read raises
\* FileNotFoundError for a path that does not exist
ReadCheck ==
    /\ reader.pc = "file"
    /\ reader' = IF reader.exists THEN [reader EXCEPT !.pc = "open"]
                 ELSE [reader EXCEPT !.pc = "raised", !.error = "FileNotFoundError"]
    /\ UNCHANGED <<conversion, other, cli, values>>

\* soreader.py:56-57, dvreader.py:53-56, ivreader.py:64-67: the file is
\* opened and parsed; open raises FileNotFoundError when there is no file
ReadParse ==
    /\ reader.pc = "open"
    /\ reader' =
          IF ~reader.exists
          THEN [reader EXCEPT !.pc = "raised", !.error = "FileNotFoundError"]
          ELSE [reader EXCEPT
                   !.pc = "returned",
                   !.result =
                       CASE reader.kind = "IVReader" -> <<ParseInterfaceView(reader.elements)>>
                         [] reader.kind = "DVReader" -> <<ParseDeploymentView(reader.elements)>>
                         [] reader.kind = "SOReader" -> <<ParseCsv(reader.elements)>>]
    /\ UNCHANGED <<conversion, other, cli, values>>

\* ---------------------------------------------------------- the command line
\* values is the state of one call of get_values_dictionary: the --value
\* options were given or not (args.value is a list or None), args are the
\* pairs given, each a text; result is the dictionary returned, a function
\* from names to values.
PairChars == {"a", "=", " "}

\* pair.count(c)
Count(pair, c) == Cardinality({k \in DOMAIN pair : pair[k] = c})

\* cli.py:136-137
PairName(pair) == Strip(Split(pair, "=")[1])

\* cli.py:136, 138
PairValue(pair) == Strip(Split(pair, "=")[2])

EmptyDictionary == [name \in {} |-> <<>>]

\* Put with the value a name already has kept
Put_KeepFirst(dictionary, name, value) ==
    [n \in DOMAIN dictionary \cup {name} |->
        IF n \in DOMAIN dictionary THEN dictionary[n] ELSE value]

\* cli.py:142: result[name] = value
Put(dictionary, name, value) ==
    [n \in DOMAIN dictionary \cup {name} |-> IF n = name THEN value ELSE dictionary[n]]

\* cli.py:131-143: the loop over the pairs, from pair k on
RECURSIVE ValuesFrom(_, _, _)
ValuesFrom(args, k, result) ==
    IF k > Len(args) THEN [error |-> "None", result |-> result]
    ELSE IF Count(args[k], "=") # 1 THEN [error |-> "ValueError", result |-> EmptyDictionary]
    ELSE IF Len(PairName(args[k])) = 0
    THEN [error |-> "ValueError", result |-> EmptyDictionary]
    ELSE ValuesFrom(args, k + 1, Put(result, PairName(args[k]), PairValue(args[k])))

\* cli.py:127-143
get_values_dictionary(given, args) ==
    IF ~given \/ args = <<>> THEN [error |-> "None", result |-> EmptyDictionary]
    ELSE ValuesFrom(args, 1, EmptyDictionary)

NoValues ==
    [given |-> FALSE, args |-> <<>>, pc |-> "call", error |-> "None",
     result |-> EmptyDictionary]

RECURSIVE TotalChars(_)
TotalChars(args) == IF args = <<>> THEN 0 ELSE Len(Head(args)) + TotalChars(Tail(args))

\* cli.py:58-63: the command line gets one more --value option, its text
\* still empty
AddPair ==
    /\ values.pc = "call"
    /\ values.given
    /\ Len(values.args) < MaxPairs
    /\ values' = [values EXCEPT !.args = Append(@, <<>>)]
    /\ UNCHANGED <<conversion, other, reader, cli>>

\* cli.py:58-63: the text of the last --value option gets one more character
AddPairChar ==
    /\ values.pc = "call"
    /\ values.args # <<>>
    /\ TotalChars(values.args) < MaxArgChars
    /\ \E c \in PairChars :
          values' = [values EXCEPT !.args[Len(values.args)] = Append(@, c)]
    /\ UNCHANGED <<conversion, other, reader, cli>>

\* cli.py:127-143, called at cli.py:219
GetValuesDictionary ==
    /\ values.pc = "call"
    /\ LET outcome == get_values_dictionary(values.given, values.args)
       IN values' = [values EXCEPT
                        !.pc = IF outcome.error = "None" THEN "returned" ELSE "raised",
                        !.error = outcome.error,
                        !.result = outcome.result]
    /\ UNCHANGED <<conversion, other, reader, cli>>

\* cli is the state of one run of main: the postprocessor type of
\* --postprocess; whether the steps before the templates (reading the views
\* and the values, cli.py:210-219) raise; the templates of the command line,
\* each with its file present or not and with a text Mako renders or not;
\* the position in the loop over them; the log; the files written, each with
\* the template it was written for; result is <<>> or <<the exit code>>.
OutputDirectory == "out"

Templates == [file : BOOLEAN, renders : BOOLEAN]

\* cli.py:117-124, 221-229: the types main registers a postprocessor for
Registry == {"none", "md2docx", "md2html"}

\* postprocessor.py:35-39: markdown_to_word_file is called with the text and
\* the file name; its base_path stays at the default of md2docx.py:85
Md2docxProcess(text, base_file_name) ==
    [file |-> base_file_name \o ".docx", by |-> "Md2docxPostprocessor", base_path |-> ""]

\* postprocessor.py:42-48
Md2HtmlProcess(text, base_file_name) ==
    [file |-> base_file_name \o ".html", by |-> "Md2HtmlPostprocessor", base_path |-> ""]

\* postprocessor.py:51-56
PassthroughProcess(text, base_file_name) ==
    [file |-> base_file_name \o ".md", by |-> "PassthroughPostprocessor", base_path |-> ""]

\* postprocessor.py:65-76: Postprocessor.process has the parameters
\* postprocessor_type, text and base_file_name; a call with any other
\* number of arguments raises TypeError before the body runs
PostprocessorProcess(arguments) ==
    IF Len(arguments) # 3 THEN [error |-> "TypeError", written |-> <<>>]
    ELSE IF arguments[1] \notin Registry THEN [error |-> "ValueError", written |-> <<>>]
    ELSE [error |-> "None",
          written |->
              <<CASE arguments[1] = "md2docx" -> Md2docxProcess(arguments[2], arguments[3])
                  [] arguments[1] = "md2html" -> Md2HtmlProcess(arguments[2], arguments[3])
                  [] arguments[1] = "none" -> PassthroughProcess(arguments[2], arguments[3])>>]

\* cli.py:169-184: the body of the try statement of instantiate for the
\* template at position k
InstantiateBody(template, k, postprocessor_type, output_directory) ==
    IF ~template.file THEN [error |-> "FileNotFoundError", written |-> <<>>]
    ELSE IF ~template.renders THEN [error |-> "Exception", written |-> <<>>]
    ELSE PostprocessorProcess(<<postprocessor_type, "text",
                                JoinPath(output_directory, "t" \o ToString(k)),
                                output_directory>>)

NoCli ==
    [type |-> "none", setup |-> "ok", templates |-> <<>>, i |-> 1, pc |-> "args",
     log |-> <<>>, written |-> <<>>, result |-> <<>>]

\* cli.py:66-71: the command line gets one more --template option
AddTemplate ==
    /\ cli.pc = "args"
    /\ Len(cli.templates) < MaxTemplates
    /\ \E template \in Templates :
          cli' = [cli EXCEPT !.templates = Append(@, template)]
    /\ UNCHANGED <<conversion, other, reader, values>>

\* cli.py:191-231: main up to the loop over the templates; an exception of
\* a reader or of get_values_dictionary leaves main
MainSetup ==
    /\ cli.pc = "args"
    /\ cli' = IF cli.setup = "ok" THEN [cli EXCEPT !.pc = "templates", !.i = 1]
              ELSE [cli EXCEPT !.pc = "raised"]
    /\ UNCHANGED <<conversion, other, reader, values>>

\* Instantiate with the exception leaving instantiate and main
Instantiate_Propagates ==
    /\ cli.pc = "templates"
    /\ cli.i <= Len(cli.templates)
    /\ LET outcome == InstantiateBody(cli.templates[cli.i], cli.i, cli.type, OutputDirectory)
       IN cli' = [cli EXCEPT
                     !.log = Append(@, [level |-> "info", template |-> cli.i]),
                     !.written = @ \o [w \in DOMAIN outcome.written |->
                                         [template |-> cli.i, file |-> outcome.written[w]]],
                     !.pc = IF outcome.error = "None" THEN @ ELSE "raised",
                     !.i = IF outcome.error = "None" THEN @ + 1 ELSE @]
    /\ UNCHANGED <<conversion, other, reader, values>>

\* cli.py:161-188, 233-243: one pass of the loop of main, the call of
\* instantiate for the next template; an exception of the body is caught
\* and logged
Instantiate ==
    /\ cli.pc = "templates"
    /\ cli.i <= Len(cli.templates)
    /\ LET outcome == InstantiateBody(cli.templates[cli.i], cli.i, cli.type, OutputDirectory)
       IN cli' = [cli EXCEPT
                     !.log = Append(@, [level |-> "info", template |-> cli.i])
                             \o (IF outcome.error = "None" THEN <<>>
                                 ELSE <<[level |-> "error", template |-> cli.i]>>),
                     !.written = @ \o [w \in DOMAIN outcome.written |->
                                         [template |-> cli.i, file |-> outcome.written[w]]],
                     !.i = @ + 1]
    /\ UNCHANGED <<conversion, other, reader, values>>

\* cli.py:233-245: the loop is over and main returns 0
MainReturn ==
    /\ cli.pc = "templates"
    /\ cli.i > Len(cli.templates)
    /\ cli' = [cli EXCEPT !.pc = "returned", !.result = <<0>>]
    /\ UNCHANGED <<conversion, other, reader, values>>

\* ------------------------------------------------------- several calls
\* The frame of a call of markdown_to_word_object that has just begun.  soup
\* and doc are local variables of the function (md2docx.py:93-96), so each
\* call has its own; the module has no variable a call assigns to.
NewCall == [soup |-> <<>>, index |-> 1, doc |-> <<>>, pc |-> "parse", calls |-> 0]

\* Switch with one document for both calls
Switch_SharedDoc ==
    /\ soup' = other.soup
    /\ index' = other.index
    /\ pc' = other.pc
    /\ other' = [other EXCEPT !.soup = soup, !.index = index, !.pc = pc]
    /\ UNCHANGED <<doc, files, base_path, reader, cli, values>>

\* md2docx.py:91-99: the interpreter leaves the call it is running and
\* goes on with the other one; the locals of each call stay in its frame
Switch ==
    /\ soup' = other.soup
    /\ index' = other.index
    /\ doc' = other.doc
    /\ pc' = other.pc
    /\ other' = [other EXCEPT !.soup = soup, !.index = index, !.doc = doc, !.pc = pc]
    /\ UNCHANGED <<files, base_path, reader, cli, values>>

\* md2docx.py:91-95: after a call has ended, markdown_to_word_object is
\* called again, with any markup; doc and index are assigned at lines 96
\* and 102
CallAgain ==
    /\ pc \in {"returned", "raised"}
    /\ other.calls < MaxCalls
    /\ soup' = <<>>
    /\ pc' = "parse"
    /\ other' = [other EXCEPT !.calls = @ + 1]
    /\ UNCHANGED <<index, doc, files, base_path, reader, cli, values>>

\* No reader, command line or second call at work: the state of the
\* variables elsewhere in a specification of one conversion.
Idle ==
    /\ other = NewCall
    /\ reader = NoReader
    /\ cli = NoCli
    /\ values = NoValues

\* The paths the images of the model name, verbatim and below the base
\* directory.
Paths == {"pic.png", "out/pic.png"}

NoFiles == [path \in Paths |-> "absent"]

\* A conversion of markup without images: no file matters
Init ==
    /\ soup = <<>>
    /\ index = 1
    /\ doc = <<>>
    /\ pc = "parse"
    /\ files = NoFiles
    /\ base_path = ""
    /\ Idle

\* A conversion of markup with images and no base directory: the path the
\* markup names is absent, an image, or a file add_picture cannot read
InitFiles ==
    /\ soup = <<>>
    /\ index = 1
    /\ doc = <<>>
    /\ pc = "parse"
    /\ files \in {[NoFiles EXCEPT !["pic.png"] = k] : k \in {"absent", "image", "corrupt"}}
    /\ base_path = ""
    /\ Idle

\* A conversion of markup with images, with or without a base directory:
\* any state of the path the markup names and of that path below the base
InitImage ==
    /\ soup = <<>>
    /\ index = 1
    /\ doc = <<>>
    /\ pc = "parse"
    /\ files \in [Paths -> {"absent", "image", "corrupt"}]
    /\ base_path \in {"", "out"}
    /\ Idle

\* Two calls of the conversion in one process with one file system, each
\* at its beginning
InitCalls ==
    /\ soup = <<>>
    /\ index = 1
    /\ doc = <<>>
    /\ pc = "parse"
    /\ files \in {[NoFiles EXCEPT !["pic.png"] = k] : k \in {"absent", "image", "corrupt"}}
    /\ base_path = ""
    /\ other = NewCall
    /\ reader = NoReader
    /\ cli = NoCli
    /\ values = NoValues

\* A call of read of one of the readers, for a path that exists, its file
\* still empty, or for a path that does not exist
InitReader ==
    /\ soup = <<>>
    /\ index = 1
    /\ doc = <<>>
    /\ pc = "parse"
    /\ files = NoFiles
    /\ base_path = ""
    /\ other = NewCall
    /\ reader \in {[NoReader EXCEPT !.kind = k, !.exists = e] :
                      k \in ReaderKinds, e \in BOOLEAN}
    /\ cli = NoCli
    /\ values = NoValues

\* A call of get_values_dictionary, with or without --value options
InitValues ==
    /\ soup = <<>>
    /\ index = 1
    /\ doc = <<>>
    /\ pc = "parse"
    /\ files = NoFiles
    /\ base_path = ""
    /\ other = NewCall
    /\ reader = NoReader
    /\ cli = NoCli
    /\ values \in {[NoValues EXCEPT !.given = g] : g \in BOOLEAN}

\* A run of main with any postprocessor type, the steps before the
\* templates raising or not
InitCli ==
    /\ soup = <<>>
    /\ index = 1
    /\ doc = <<>>
    /\ pc = "parse"
    /\ files = NoFiles
    /\ base_path = ""
    /\ other = NewCall
    /\ reader = NoReader
    /\ cli \in {[NoCli EXCEPT !.type = t, !.setup = u] :
                   t \in Registry, u \in {"ok", "raises"}}
    /\ values = NoValues

Next ==
    \/ ParseTopNode
    \/ StartLoop
    \/ ConvertHeading
    \/ ConvertImageParagraph
    \/ ConvertParagraph
    \/ ConvertUl
    \/ ConvertOl
    \/ ConvertTable
    \/ SkipElement
    \/ Return

Spec == InitFiles /\ [][Next]_vars

\* md2docx.py:102-154: the steps of the loop over the top-level nodes
Loop ==
    \/ ConvertHeading
    \/ ConvertImageParagraph
    \/ ConvertParagraph
    \/ ConvertUl
    \/ ConvertOl
    \/ ConvertTable
    \/ SkipElement
    \/ Return

\* The call goes on as long as the loop has a step to take: the interpreter
\* runs the for statement of md2docx.py:102 to its end.  Nothing makes the
\* parser add a node or the loop begin.
NextTerminates == ParseTermNode \/ StartLoop \/ Loop

SpecTerminates == InitFiles /\ [][NextTerminates]_vars /\ WF_vars(Loop)

NextList == ParseListNode \/ StartLoop \/ ConvertUl \/ ConvertOl \/ Return

SpecList == Init /\ [][NextList]_vars

NextText == ParseItemNode \/ StartLoop \/ ConvertUl \/ Return

SpecText == Init /\ [][NextText]_vars

NextPara == ParseParaNode \/ StartLoop \/ ConvertParagraph \/ Return

SpecPara == Init /\ [][NextPara]_vars

NextImage ==
    \/ ParseImageNode
    \/ StartLoop
    \/ ConvertImageParagraph
    \/ ConvertParagraph
    \/ Return

SpecImage == InitImage /\ [][NextImage]_vars

NextHead ==
    \/ ParseHeadNode
    \/ StartLoop
    \/ ConvertHeading
    \/ ConvertParagraph
    \/ SkipElement
    \/ Return

SpecHead == Init /\ [][NextHead]_vars

NextCalls ==
    \/ ParseCallNode
    \/ StartLoop
    \/ ConvertHeading
    \/ ConvertImageParagraph
    \/ ConvertParagraph
    \/ Return
    \/ Switch
    \/ CallAgain

SpecCalls == InitCalls /\ [][NextCalls]_vars

NextReader == WriteElement \/ WriteIdChar \/ ReadCheck \/ ReadParse

SpecReader == InitReader /\ [][NextReader]_vars

NextValues == AddPair \/ AddPairChar \/ GetValuesDictionary

SpecValues == InitValues /\ [][NextValues]_vars

NextCli == AddTemplate \/ MainSetup \/ Instantiate \/ MainReturn

SpecCli == InitCli /\ [][NextCli]_vars

NextTable == ParseTableNode \/ StartLoop \/ ConvertTable \/ Return

SpecTable == Init /\ [][NextTable]_vars

\* ------------------------------------------------- properties of the lists
\* The number of list items a node lies in: the nesting depth of an item.
ItemDepth(n) ==
    Cardinality({a \in DOMAIN soup : soup[a].name = "li" /\ IsBelow(soup, n, a)})

\* The indentation level a list style name stands for.
StyleLevel(style) ==
    CASE style \in {"List Bullet", "List Number"} -> 0
      [] style \in {"List Bullet 2", "List Number 2"} -> 1
      [] style \in {"List Bullet 3", "List Number 3"} -> 2
      [] OTHER -> -1

\* The list node an item is a direct child of.
ListOf(n) == soup[n].parent

\* Item m is an item of a list that is a direct child of item n.
NestedDirectlyIn(m, n) == ListOf(m) # 0 /\ soup[ListOf(m)].parent = n

\* Node d is node n or lies below it.
InSubtree(d, n) == d = n \/ IsBelow(soup, d, n)

\* Item n has text of its own: a child that is no list and has text.
HasOwnText(n) ==
    \E c \in DOMAIN soup :
        /\ soup[c].parent = n
        /\ soup[c].name \notin {"ul", "ol"}
        /\ \E s \in DOMAIN soup :
              /\ InSubtree(s, c)
              /\ soup[s].name = NoName
              /\ \E k \in DOMAIN soup[s].text : ~IsSpace(soup[s].text[k])

IsItem(n) == soup[n].name = "li"

\* C2: the items of a top-level list are emitted at level 0, an item of a
\* list nested directly in an item emitted at level L is emitted at level
\* L + 1, and so the level of every emitted item is its nesting depth.
C2_NestedLevelIsParentLevelPlusOne ==
    \A i \in DOMAIN doc :
        /\ soup[ListOf(doc[i].src)].parent = 0 => StyleLevel(doc[i].style) = 0
        /\ \A j \in DOMAIN doc :
              NestedDirectlyIn(doc[j].src, doc[i].src)
                  => StyleLevel(doc[j].style) = StyleLevel(doc[i].style) + 1
        /\ StyleLevel(doc[i].style) = ItemDepth(doc[i].src)

\* C2's case: an item emitted below the first nesting level and the item
\* it is nested directly in, both in the returned document.
C2_Witness ==
    /\ pc = "returned"
    /\ \E i, j \in DOMAIN doc :
          /\ ItemDepth(doc[i].src) = 1
          /\ NestedDirectlyIn(doc[j].src, doc[i].src)

\* C3: every list that is a direct child of a list item is expanded, so in
\* the returned document every item with text of its own has its block, also
\* the items of a second nested list of the same kind.
C3_EveryNestedListIsExpanded ==
    pc = "returned" =>
        \A n \in DOMAIN soup :
            (IsItem(n) /\ HasOwnText(n)) => \E i \in DOMAIN doc : doc[i].src = n

\* C4: the nested lists of an item are expanded in the order they appear as
\* children: with an ordered and an unordered list among the children of an
\* item, every block of the earlier list precedes every block of the later.
C4_MixedNestedListsInChildOrder ==
    pc = "returned" =>
        \A x, y \in DOMAIN soup :
            (/\ x < y
             /\ soup[x].parent = soup[y].parent
             /\ soup[x].parent # 0
             /\ IsItem(soup[x].parent)
             /\ {soup[x].name, soup[y].name} = {"ul", "ol"})
            => \A i, j \in DOMAIN doc :
                  (IsBelow(soup, doc[i].src, x) /\ IsBelow(soup, doc[j].src, y)) => i < j

\* C5: an item without text of its own emits no block, the items of its
\* nested lists are still emitted, one level deeper, and an item with text
\* of its own emits exactly one block.
C5_EmptyItemStillExpandsItsLists ==
    pc = "returned" =>
        \A n \in DOMAIN soup :
            IsItem(n) =>
                /\ ~HasOwnText(n) =>
                      /\ \A i \in DOMAIN doc : doc[i].src # n
                      /\ \A m \in DOMAIN soup :
                            (IsItem(m) /\ NestedDirectlyIn(m, n) /\ HasOwnText(m))
                            => \E i \in DOMAIN doc :
                                  /\ doc[i].src = m
                                  /\ StyleLevel(doc[i].style) = ItemDepth(n) + 1
                /\ HasOwnText(n) => Cardinality({i \in DOMAIN doc : doc[i].src = n}) = 1

\* C6: the blocks come in pre-order: the block of an item precedes every
\* block from its nested lists, and every block from an item (its own and
\* its descendants') precedes every block from a later sibling item.
C6_PreOrder ==
    \A i, j \in DOMAIN doc :
        /\ IsBelow(soup, doc[j].src, doc[i].src) => i < j
        /\ \A x, y \in DOMAIN soup :
              (/\ IsItem(x) /\ IsItem(y)
               /\ soup[x].parent = soup[y].parent
               /\ x < y
               /\ InSubtree(doc[i].src, x)
               /\ InSubtree(doc[j].src, y))
              => i < j

\* C6's case: an item with a block of its own and a block from a nested
\* list, followed by a block of its next sibling.
C6_Witness ==
    /\ pc = "returned"
    /\ \E i, j, k \in DOMAIN doc :
          /\ IsBelow(soup, doc[j].src, doc[i].src)
          /\ soup[doc[k].src].parent = soup[doc[i].src].parent
          /\ doc[i].src < doc[k].src
          /\ i < j /\ j < k

\* The style name of an item of a list of the given kind at a level.
StyleNameOf(kind, level) ==
    CASE kind = "ul" /\ level = 0 -> "List Bullet"
      [] kind = "ul" /\ level = 1 -> "List Bullet 2"
      [] kind = "ul" /\ level = 2 -> "List Bullet 3"
      [] kind = "ol" /\ level = 0 -> "List Number"
      [] kind = "ol" /\ level = 1 -> "List Number 2"
      [] kind = "ol" /\ level = 2 -> "List Number 3"
      [] OTHER -> "no such style"

\* C8: the style of an emitted item names the kind of the item's own list
\* and its level: the bare base name at level 0, the base name and L + 1 at
\* level L >= 1, whatever the kinds of the enclosing lists.
C8_StyleEncodesKindAndLevel ==
    \A i \in DOMAIN doc :
        doc[i].style = StyleNameOf(soup[ListOf(doc[i].src)].name, ItemDepth(doc[i].src))

\* C8's case: a numbered item at level 1 inside an item of a bulleted list.
C8_Witness ==
    /\ pc = "returned"
    /\ \E i, j \in DOMAIN doc :
          /\ doc[i].style = "List Bullet"
          /\ doc[j].style = "List Number 2"
          /\ NestedDirectlyIn(doc[j].src, doc[i].src)

\* The text of a block: python-docx's Paragraph.text, the texts of its runs.
RECURSIVE RunsText(_)
RunsText(runs) ==
    IF runs = <<>> THEN <<>> ELSE Head(runs).text \o RunsText(Tail(runs))

BlockText(block) == RunsText(block.runs)

\* The children of item n that are no list nodes, in child order.
NonListChildren(n) ==
    SelectSeq(Children(soup, n), LAMBDA c : soup[c].name # "ul" /\ soup[c].name # "ol")

\* The characters of s from position i on, t put before each but the first.
RECURSIVE SeparatedBy(_, _, _)
SeparatedBy(parts, sep, i) ==
    IF i > Len(parts) THEN <<>>
    ELSE (IF i = 1 THEN <<>> ELSE sep) \o parts[i] \o SeparatedBy(parts, sep, i + 1)

\* C7: the text of an emitted item is the texts of its children that are no
\* list nodes, in child order, separated by single spaces, then trimmed: it
\* has no whitespace at either end and nothing of a nested list's text; and
\* only the direct <li> children of a list are its items, so every block is
\* emitted for an <li> below a list, and for each at most once.
C7_ItemTextIsOwnText ==
    \A i \in DOMAIN doc :
        LET n == doc[i].src
            kids == NonListChildren(n)
            text == BlockText(doc[i])
        IN /\ text = Strip(SeparatedBy([k \in DOMAIN kids |-> get_element_text(soup, kids[k])],
                                       <<" ">>, 1))
           /\ text # <<>>
           /\ ~IsSpace(text[1]) /\ ~IsSpace(text[Len(text)])
           /\ \A l, s \in DOMAIN soup :
                 (/\ soup[l].parent = n /\ soup[l].name \in {"ul", "ol"}
                  /\ soup[s].name = NoName /\ IsBelow(soup, s, l))
                 => \A k \in DOMAIN text, c \in DOMAIN soup[s].text :
                       IsSpace(soup[s].text[c]) \/ text[k] # soup[s].text[c]
           /\ IsItem(n)
           /\ soup[ListOf(n)].name \in {"ul", "ol"}
           /\ \A j \in DOMAIN doc : doc[j].src = n => j = i

\* C7's case: an emitted item with two children that are no lists, one of
\* them a string with whitespace around it, and a nested list whose item has
\* text.
C7_Witness ==
    /\ pc = "returned"
    /\ \E i, j \in DOMAIN doc :
          /\ NestedDirectlyIn(doc[j].src, doc[i].src)
          /\ Len(NonListChildren(doc[i].src)) >= 2
          /\ \E c \in DOMAIN soup :
                /\ soup[c].parent = doc[i].src
                /\ soup[c].name = NoName
                /\ soup[c].text # Strip(soup[c].text)
                /\ Strip(soup[c].text) # <<>>

\* --------------------------------------------- properties of the paragraphs
\* The top-level elements the loop has handled.
Handled == {TopLevel[k] : k \in 1..(index - 1)}

\* The blocks emitted for node n.
BlocksOf(n) == {i \in DOMAIN doc : doc[i].src = n}

\* A paragraph without an image.
IsTextParagraph(e) == soup[e].name = "p" /\ FindImg(soup, e) = 0

\* C9: a paragraph without an image gives exactly one paragraph block, whose
\* runs are the paragraph's direct children one to one and in order: bold
\* and not italic for <strong>, italic and not bold for <em>, neither for
\* any other child; the conversion goes on to return the document.
C9_RunsMirrorInlineChildren ==
    /\ pc # "raised"
    /\ \A e \in DOMAIN soup :
          (pc # "parse" /\ e \in Handled /\ IsTextParagraph(e)) =>
              /\ Cardinality(BlocksOf(e)) = 1
              /\ \A i \in BlocksOf(e) :
                    LET kids == Children(soup, e)
                    IN /\ Len(doc[i].runs) = Len(kids)
                       /\ \A k \in DOMAIN kids :
                             /\ doc[i].runs[k].bold = (soup[kids[k]].name = "strong")
                             /\ doc[i].runs[k].italic = (soup[kids[k]].name = "em")

\* A paragraph whose only content is plain text: one string.
IsPlainParagraph(e) ==
    /\ IsTextParagraph(e)
    /\ Len(Children(soup, e)) = 1
    /\ soup[Children(soup, e)[1]].name = NoName

\* C10 as claimed: the block of a paragraph of plain text has one run,
\* neither bold nor italic, whose text is the paragraph's text trimmed.
C10_PlainParagraphTextTrimmed ==
    \A e \in DOMAIN soup :
        (pc # "parse" /\ e \in Handled /\ IsPlainParagraph(e)) =>
            /\ Cardinality(BlocksOf(e)) = 1
            /\ \A i \in BlocksOf(e) :
                  /\ Len(doc[i].runs) = 1
                  /\ ~doc[i].runs[1].bold /\ ~doc[i].runs[1].italic
                  /\ doc[i].runs[1].text = Strip(soup[Children(soup, e)[1]].text)

\* C10, amended: the block of a paragraph of plain text has one run, neither
\* bold nor italic, whose text is the paragraph's text as it is, leading and
\* trailing whitespace included.
C10_PlainParagraphTextKept ==
    \A e \in DOMAIN soup :
        (pc # "parse" /\ e \in Handled /\ IsPlainParagraph(e)) =>
            /\ Cardinality(BlocksOf(e)) = 1
            /\ \A i \in BlocksOf(e) :
                  /\ Len(doc[i].runs) = 1
                  /\ ~doc[i].runs[1].bold /\ ~doc[i].runs[1].italic
                  /\ doc[i].runs[1].text = soup[Children(soup, e)[1]].text
                  /\ doc[i].style = "Normal"

\* C10's case: a returned document with the block of a paragraph of plain
\* text that has whitespace at its ends.
C10_Witness ==
    /\ pc = "returned"
    /\ \E e \in Handled :
          /\ IsPlainParagraph(e)
          /\ BlocksOf(e) # {}
          /\ IsSpace(soup[Children(soup, e)[1]].text[1])

\* ------------------------------------------------ properties of the assembly
\* The position, at the top level, of the element node n is or lies in.
TopIndexOf(n) == CHOOSE k \in 1..Len(TopLevel) : InSubtree(n, TopLevel[k])

\* The blocks emitted for the top-level element at position k.
BlocksOfTop(k) == {i \in DOMAIN doc : InSubtree(doc[i].src, TopLevel[k])}

\* C1: the document is a linear fold over the top-level nodes: every block
\* comes from a top-level node the loop has reached, and for two top-level
\* nodes i < j every block of node i precedes every block of node j.
C1_LinearFold ==
    /\ \A i \in DOMAIN doc :
          \E k \in 1..Len(TopLevel) :
             /\ InSubtree(doc[i].src, TopLevel[k])
             /\ k < index \/ (pc = "raised" /\ k = index)
    /\ \A i, j \in DOMAIN doc :
          TopIndexOf(doc[i].src) < TopIndexOf(doc[j].src) => i < j

\* C1's case: a returned document with the blocks of two top-level nodes, one
\* of them with more than one block.
C1_Witness ==
    /\ pc = "returned"
    /\ \E k, l \in 1..Len(TopLevel) :
          /\ k < l
          /\ Cardinality(BlocksOfTop(k)) >= 2
          /\ BlocksOfTop(l) # {}

\* ------------------------------------- properties of the image paragraphs
\* The strings directly in paragraph e that hold more than whitespace.
MeaningfulStrings(e) ==
    {c \in DOMAIN soup :
        soup[c].parent = e /\ soup[c].name = NoName /\ Strip(soup[c].text) # <<>>}

\* A contains the characters of t, in order and next to each other.
Contains(a, t) ==
    \E k \in 0..(Len(a) - Len(t)) : SubSeq(a, k + 1, k + Len(t)) = t

\* C11: a paragraph that holds an image together with text that is more than
\* whitespace goes to the run builder: it yields a paragraph block of its
\* own that carries that text.
C11_ImageParagraphKeepsText ==
    \A e \in Handled :
        (/\ soup[e].name = "p"
         /\ FindImg(soup, e) # 0
         /\ MeaningfulStrings(e) # {}) =>
            \E i \in BlocksOf(e) :
               /\ doc[i].kind = "paragraph"
               /\ \A c \in MeaningfulStrings(e) :
                     Contains(BlockText(doc[i]), Strip(soup[c].text))

\* ------------------------------------------------ properties of the tables
\* The numbers of a set, in increasing order.
RECURSIVE SortedSeq(_)
SortedSeq(S) ==
    IF S = {} THEN <<>>
    ELSE LET least == CHOOSE x \in S : \A y \in S : x <= y
         IN <<least>> \o SortedSeq(S \ {least})

\* The rows of table t, in source order.
SourceRows(t) ==
    SortedSeq({r \in DOMAIN soup : soup[r].name = "tr" /\ IsBelow(soup, r, t)})

\* The header and data cells of row r, in source order.
SourceCells(r) ==
    SortedSeq({c \in DOMAIN soup : soup[c].name \in {"th", "td"} /\ IsBelow(soup, c, r)})

\* The rows of table t that have a cell.
SurvivingRows(t) == SelectSeq(SourceRows(t), LAMBDA r : SourceCells(r) # <<>>)

IsTable(block) == block.kind = "table"

\* Every emitted table is a grid as wide as its first surviving source row,
\* with a row for each surviving row; a cell its source row supplies has one
\* run, a cell it does not supply has none.
TableIsRectangular ==
    \A i \in DOMAIN doc :
        IsTable(doc[i]) =>
            LET surviving == SurvivingRows(doc[i].src)
                rows == doc[i].rows
            IN /\ surviving # <<>>
               /\ Len(rows) = Len(surviving)
               /\ \A r \in DOMAIN rows :
                     /\ Len(rows[r]) = Len(SourceCells(surviving[1]))
                     /\ \A c \in DOMAIN rows[r] :
                           Len(rows[r][c]) = IF c <= Len(SourceCells(surviving[r])) THEN 1 ELSE 0

\* Every cell of an emitted table that its source row supplies holds the
\* text of source cell c of that row, trimmed.
TableCellsHoldTrimmedText ==
    \A i \in DOMAIN doc :
        IsTable(doc[i]) =>
            LET surviving == SurvivingRows(doc[i].src)
                rows == doc[i].rows
            IN \A r \in DOMAIN rows : \A c \in DOMAIN rows[r] :
                  (r <= Len(surviving) /\ c <= Len(SourceCells(surviving[r]))) =>
                      RunsText(rows[r][c]) = Strip(TagText(soup, SourceCells(surviving[r])[c]))

\* C12: every emitted table is rectangular: as many columns as the first
\* surviving source row has cells, every row that wide, cell (r, c) holding
\* the trimmed text of source cell c of surviving row r, the source cells
\* beyond the width ignored, the cells a shorter row does not supply left
\* empty, and no error raised.
C12_TableIsRectangularWithTrimmedCells ==
    /\ pc # "raised"
    /\ TableIsRectangular
    /\ TableCellsHoldTrimmedText

\* C13: the rows without a cell are dropped: a handled table whose rows have
\* no cell gives no block, any other gives one table with a row for each
\* source row that has a cell, in source order (row r starts with the cells
\* of the r-th such source row).
C13_RowsWithoutCellsAreDropped ==
    \A t \in Handled :
        soup[t].name = "table" =>
            LET surviving == SurvivingRows(t)
            IN IF surviving = <<>> THEN BlocksOf(t) = {}
               ELSE /\ Cardinality(BlocksOf(t)) = 1
                    /\ \A i \in BlocksOf(t) :
                          /\ IsTable(doc[i])
                          /\ Len(doc[i].rows) = Len(surviving)
                          /\ \A r \in DOMAIN doc[i].rows :
                                r <= Len(surviving) =>
                                   RunsText(doc[i].rows[r][1]) =
                                      get_element_text(soup, SourceCells(surviving[r])[1])

\* C13's case: a returned table with fewer rows than its source, a row
\* without cells lying before one with a cell.
C13_Witness ==
    /\ pc = "returned"
    /\ \E i \in DOMAIN doc :
          /\ IsTable(doc[i])
          /\ Len(doc[i].rows) >= 2
          /\ Len(doc[i].rows) < Len(SourceRows(doc[i].src))
          /\ SourceCells(SourceRows(doc[i].src)[1]) = <<>>

\* The first row of table t, as the source has it, has a header cell.
FirstSourceRowHasHeader(t) ==
    /\ SourceRows(t) # <<>>
    /\ \E c \in DOMAIN soup :
          soup[c].name = "th" /\ IsBelow(soup, c, SourceRows(t)[1])

\* C14: the runs of the first emitted row are all bold when the first row of
\* the source table has a header cell and none is bold when it has not,
\* whatever the other rows hold; no run of another row is bold.
C14_HeaderEmphasis ==
    \A i \in DOMAIN doc :
        IsTable(doc[i]) =>
            \A r \in DOMAIN doc[i].rows : \A c \in DOMAIN doc[i].rows[r] :
                \A k \in DOMAIN doc[i].rows[r][c] :
                    doc[i].rows[r][c][k].bold
                        = (r = 1 /\ FirstSourceRowHasHeader(doc[i].src))

\* C14's case: a returned table under a header row, with a run in the first
\* row and a run in a later row that holds a header cell too.
C14_Witness ==
    /\ pc = "returned"
    /\ \E i \in DOMAIN doc :
          /\ IsTable(doc[i])
          /\ FirstSourceRowHasHeader(doc[i].src)
          /\ Len(doc[i].rows) >= 2
          /\ doc[i].rows[1][1] # <<>>
          /\ doc[i].rows[2][1] # <<>>
          /\ \E c \in DOMAIN soup :
                soup[c].name = "th" /\ IsBelow(soup, c, SurvivingRows(doc[i].src)[2])

\* ------------------------------------------------ properties of the images
\* The images the loop has handed to embed_image: for each handled paragraph
\* that holds an image, the first one.
HandledImages ==
    {FindImg(soup, e) : e \in {h \in Handled : soup[h].name = "p" /\ FindImg(soup, h) # 0}}

HasSrc(img) == soup[img].attrs.src # <<>> /\ soup[img].attrs.src # <<"">>

SrcOf(img) == soup[img].attrs.src[1]

Present(path) == files[path] # "absent"

BelowBase(path) == base_path \o "/" \o path

\* The image has no src, or its src exists neither as it is nor below the
\* base directory (when there is one).
Unresolved(img) ==
    \/ ~HasSrc(img)
    \/ /\ ~Present(SrcOf(img))
       /\ base_path = "" \/ ~Present(BelowBase(SrcOf(img)))

\* The path a resolved image is read from.
ResolvedPath(img) ==
    IF Present(SrcOf(img)) THEN SrcOf(img) ELSE BelowBase(SrcOf(img))

Trimmed(attr) == IF attr = <<>> THEN <<>> ELSE Strip(attr[1])

\* The caption the claim gives an image: the title, trimmed, when that is
\* not empty, and else the alt text, trimmed.
ExpectedCaption(img) ==
    IF Trimmed(soup[img].attrs.title) # <<>> THEN Trimmed(soup[img].attrs.title)
    ELSE Trimmed(soup[img].attrs.alt)

\* The image resolves, its file is an image and its caption a text the
\* document can hold.
EmbedSucceeds(img) ==
    /\ ~Unresolved(img)
    /\ files[ResolvedPath(img)] = "image"
    /\ XmlCompatible(ExpectedCaption(img))

\* The image resolves and a step of the embedding raises.
EmbedFails(img) == ~Unresolved(img) /\ ~EmbedSucceeds(img)

IsPicture(block) == block.kind = "picture"

IsCaption(block) == block.kind = "paragraph" /\ block.style = "Caption"

\* C15: embed_image, called for an image without a src or with a src that
\* exists neither as it is nor below the base directory, leaves the
\* document exactly as it was, whatever the title and the alt text.
C15_UnresolvedImageLeavesDocument ==
    [][(/\ pc = "loop"
        /\ index <= Len(TopLevel)
        /\ soup[TopLevel[index]].name = "p"
        /\ FindImg(soup, TopLevel[index]) # 0
        /\ Unresolved(FindImg(soup, TopLevel[index])))
       => doc' = doc]_vars

\* C15's case: a base directory is given, and a handled image with a
\* caption text has a src that exists neither as it is nor below the base.
C15_Witness ==
    /\ pc = "returned"
    /\ base_path # ""
    /\ \E img \in HandledImages :
          /\ HasSrc(img)
          /\ Unresolved(img)
          /\ ExpectedCaption(img) # <<>>

\* C16: an image that resolves and embeds gives exactly one picture block,
\* 6 inches wide, with exactly one caption block of style Caption right
\* behind it when the caption text is not empty, and nothing else.
C16_PictureThenCaption ==
    \A img \in HandledImages :
        EmbedSucceeds(img) =>
            \E i \in BlocksOf(img) :
               /\ IsPicture(doc[i])
               /\ doc[i].width = 6
               /\ IF CaptionText(soup[img].attrs) = <<>> THEN BlocksOf(img) = {i}
                  ELSE /\ BlocksOf(img) = {i, i + 1}
                       /\ IsCaption(doc[i + 1])

\* C16's case: a returned document where a picture has its caption behind
\* it and a paragraph converted after the two.
C16_Witness ==
    /\ pc = "returned"
    /\ \E i \in DOMAIN doc :
          /\ IsPicture(doc[i])
          /\ i + 2 \in DOMAIN doc
          /\ IsCaption(doc[i + 1])

\* C17: when a step of the embedding raises for an image that resolves, the
\* document has no picture block and no caption block of that image, and the
\* conversion does not raise.
C17_FailedEmbedLeavesNothing ==
    /\ pc # "raised"
    /\ \A img \in HandledImages :
          EmbedFails(img) =>
             \A i \in BlocksOf(img) : ~IsPicture(doc[i]) /\ ~IsCaption(doc[i])

\* C18: the caption of an embedded image is its title, trimmed, when that
\* is not empty (a blank title is empty), else its alt text, trimmed, when
\* that is not empty, and else there is no caption.
C18_CaptionIsTitleElseAlt ==
    \A img \in HandledImages :
        EmbedSucceeds(img) =>
            LET captions == {i \in BlocksOf(img) : IsCaption(doc[i])}
            IN IF ExpectedCaption(img) = <<>> THEN captions = {}
               ELSE /\ captions # {}
                    /\ \A i \in captions : BlockText(doc[i]) = ExpectedCaption(img)

\* C18's case: a returned document with the caption of an image that has
\* an alt text and a title with whitespace at its end.
C18_Witness ==
    /\ pc = "returned"
    /\ \E i \in DOMAIN doc :
          /\ IsCaption(doc[i])
          /\ Trimmed(soup[doc[i].src].attrs.title) # <<>>
          /\ Trimmed(soup[doc[i].src].attrs.title) # soup[doc[i].src].attrs.title[1]
          /\ Trimmed(soup[doc[i].src].attrs.alt) # <<>>

\* C19: the src is tried as it is first: a picture is read from the src
\* itself whenever that exists, whatever lies below the base directory, and
\* from below the base directory only when there is one and the src does not
\* exist as it is; a src that exists but cannot be read gives no picture.
C19_VerbatimPathFirst ==
    /\ \A i \in DOMAIN doc :
          IsPicture(doc[i]) =>
              LET verbatim == SrcOf(doc[i].src)
              IN /\ Present(verbatim) => doc[i].path = verbatim
                 /\ doc[i].path # verbatim =>
                       /\ base_path # ""
                       /\ ~Present(verbatim)
                       /\ doc[i].path = BelowBase(verbatim)
    /\ \A img \in HandledImages :
          (HasSrc(img) /\ files[SrcOf(img)] = "corrupt") =>
              \A i \in BlocksOf(img) : ~IsPicture(doc[i])

\* C19's case: a base directory is given, the src exists as it is and below
\* the base, and the picture has been embedded.
C19_Witness ==
    /\ pc = "returned"
    /\ base_path # ""
    /\ \E i \in DOMAIN doc :
          /\ IsPicture(doc[i])
          /\ Present(SrcOf(doc[i].src))
          /\ Present(BelowBase(SrcOf(doc[i].src)))

\* ------------------------------------------------ properties of the errors
\* C20: the conversion never raises, whatever the tree: the loop always gets
\* to return a document.
C20_NeverRaises == pc # "raised"

\* ------------------------------- properties of the headings and the skips
Recognised == {"h1", "h2", "h3", "p", "ul", "ol", "table"}

\* C21: a top-level node that is no heading of level 1 to 3, paragraph, list
\* or table is skipped: the step that handles it leaves the document as it
\* was and the loop goes on with the next node.
C21_UnrecognisedNodeIsSkipped ==
    [][(/\ pc = "loop"
        /\ index <= Len(TopLevel)
        /\ soup[TopLevel[index]].name \notin Recognised)
       => (doc' = doc /\ index' = index + 1 /\ pc' = "loop")]_vars

\* C21's case: a returned document with a block from before and a block
\* from after a level-4 heading or a block quote that has text.
C21_Witness ==
    /\ pc = "returned"
    /\ \E k \in 1..Len(TopLevel) :
          /\ soup[TopLevel[k]].name \in {"h4", "blockquote"}
          /\ \E c \in DOMAIN soup :
                soup[c].name = NoName /\ IsBelow(soup, c, TopLevel[k])
          /\ \E i, j \in DOMAIN doc : doc[i].src < TopLevel[k] /\ TopLevel[k] < doc[j].src

\* The strings below node e, as they are, in document order.
RECURSIVE TextOfStrings(_)
TextOfStrings(nodes) ==
    IF nodes = <<>> THEN <<>> ELSE soup[Head(nodes)].text \o TextOfStrings(Tail(nodes))

TextBelow(e) ==
    TextOfStrings(SortedSeq({c \in DOMAIN soup : soup[c].name = NoName /\ IsBelow(soup, c, e)}))

HeadingLevel(e) ==
    CASE soup[e].name = "h1" -> 1
      [] soup[e].name = "h2" -> 2
      [] soup[e].name = "h3" -> 3
      [] OTHER -> 0

HeadingStyles == {"Heading 1", "Heading 2", "Heading 3"}

HeadingStyles_Name(level) ==
    CASE level = 1 -> "Heading 1"
      [] level = 2 -> "Heading 2"
      [] level = 3 -> "Heading 3"

\* C22: every handled top-level heading of level 1, 2 or 3 has exactly one
\* block, a heading of its level that holds its text; no other node has a
\* heading block, and the heading blocks stand in the order of their nodes.
C22_HeadingBlockPerHeading ==
    /\ \A e \in Handled :
          HeadingLevel(e) # 0 =>
              /\ Cardinality(BlocksOf(e)) = 1
              /\ \A i \in BlocksOf(e) :
                    /\ doc[i].kind = "paragraph"
                    /\ doc[i].style = HeadingStyles_Name(HeadingLevel(e))
                    /\ BlockText(doc[i]) = TextBelow(e)
    /\ \A i \in DOMAIN doc :
          (doc[i].kind = "paragraph" /\ doc[i].style \in HeadingStyles) =>
              doc[i].src \in Handled /\ HeadingLevel(doc[i].src) # 0
    /\ \A i, j \in DOMAIN doc : doc[i].src < doc[j].src => i < j

\* C22's case: a returned document with two headings of different levels,
\* one holding text with whitespace at its start.
C22_Witness ==
    /\ pc = "returned"
    /\ \E i, j \in DOMAIN doc :
          /\ i < j
          /\ doc[i].style \in HeadingStyles
          /\ doc[j].style \in HeadingStyles
          /\ doc[i].style # doc[j].style
          /\ \E k \in {i, j} : BlockText(doc[k]) # Strip(BlockText(doc[k]))

\* ------------------------------------------- properties of several calls
\* The blocks of one top-level element of a tree of headings and paragraphs.
AloneBlocks(tree, element, fs, base) ==
    CASE tree[element].name = "h1" -> HeadingBlocks(tree, element, 1)
      [] tree[element].name = "p" /\ FindImg(tree, element) # 0 ->
            embed_image(tree, FindImg(tree, element), fs, base)
      [] tree[element].name = "p" /\ FindImg(tree, element) = 0 ->
            <<ParagraphBlock(tree, element)>>
      [] OTHER -> <<>>

RECURSIVE AloneFrom(_, _, _, _)
AloneFrom(tree, fs, base, k) ==
    IF k > Len(Children(tree, 0)) THEN <<>>
    ELSE AloneBlocks(tree, Children(tree, 0)[k], fs, base) \o AloneFrom(tree, fs, base, k + 1)

\* The document a call returns for the tree when it is the only call.
Alone(tree) == AloneFrom(tree, files, base_path, 1)

\* C23: two calls that have returned and were given the same markup, with
\* the one base directory and file system, hold the same document, whatever
\* calls were made before, between or during them.
C23_SameMarkupSameDocument ==
    (pc = "returned" /\ other.pc = "returned" /\ soup = other.soup) => doc = other.doc

\* C23's case: after a call has ended and a further call has been made in
\* its place, two returned calls of the same markup with a document that is
\* not empty.
C23_Witness ==
    /\ other.calls >= 1
    /\ pc = "returned"
    /\ other.pc = "returned"
    /\ soup = other.soup
    /\ doc # <<>>

\* C24: a call whose steps were interleaved with those of another call
\* returns the document it returns when it is the only call; so its
\* document holds no block of the other call.
C24_CallsShareNothing ==
    /\ pc = "returned" => doc = Alone(soup)
    /\ other.pc = "returned" => other.doc = Alone(other.soup)

\* C24's case: a call of one markup has returned its blocks while a call of
\* another markup, begun before, is in the middle of its loop with a block
\* emitted and an element to go.
C24_Witness ==
    /\ pc = "returned"
    /\ doc # <<>>
    /\ other.pc = "loop"
    /\ other.doc # <<>>
    /\ other.index <= Len(Children(other.soup, 0))
    /\ other.soup # soup

\* ------------------------------------------------ properties of the readers
\* C25: a call of read for a path that does not exist raises
\* FileNotFoundError before the file is opened or parsed, and yields no
\* model object.
C25_MissingFileRaisesBeforeParsing ==
    (~reader.exists /\ reader.pc # "file") =>
        /\ reader.pc = "raised"
        /\ reader.error = "FileNotFoundError"
        /\ reader.result = <<>>

\* C25's case: read has been called for a path that does not exist.
C25_Witness ==
    /\ ~reader.exists
    /\ reader.pc = "raised"

HasRequirementIds(object) == "requirement_ids" \in DOMAIN object

\* The object holds the IDs of the requirement_ids attribute of its element.
HoldsRequirementIds(object) ==
    /\ HasRequirementIds(object)
    /\ object.requirement_ids = RequirementIds(reader.elements[object.src].requirement_ids)

\* C26: every function and every provided interface of the Interface View
\* that IVReader returns has the list requirement_ids, holding the IDs of
\* the comma-separated requirement_ids attribute of its element.
C26_RequirementIdsParsed ==
    (reader.kind = "IVReader" /\ reader.pc = "returned") =>
        \A i \in DOMAIN reader.result[1].functions :
            LET function == reader.result[1].functions[i]
            IN /\ HoldsRequirementIds(function)
               /\ \A j \in DOMAIN function.provided_interfaces :
                     HoldsRequirementIds(function.provided_interfaces[j])

\* ---------------------------------------------- properties of termination
\* C27: a call that has begun its loop over the top-level nodes of a
\* finite tree ends: it returns or it raises.
C27_Terminates == (pc = "loop") ~> (pc \in {"returned", "raised"})

\* C27's case: a call has returned for a tree with a list nested in a list
\* item.
C27_Witness ==
    /\ pc = "returned"
    /\ \E l \in DOMAIN soup :
          /\ soup[l].name \in {"ul", "ol"}
          /\ soup[l].parent # 0
          /\ soup[soup[l].parent].name = "li"

\* ------------------------------------------- properties of the command line
\* The templates main has called instantiate for.
Instantiated == 1..(cli.i - 1)

\* A file system with the picture in the output directory only.
OnlyBelowOutput == [NoFiles EXCEPT !["out/pic.png"] = "image"]

\* C28: for every template that was read and rendered under postprocessing
\* md2docx, the Md2docxPostprocessor has written a document, converted with
\* the output directory as base_path, so that an image whose src exists
\* only below the output directory is found.
C28_OutputDirectoryIsBasePath ==
    \A k \in Instantiated :
        (cli.pc # "args" /\ cli.type = "md2docx"
         /\ cli.templates[k].file /\ cli.templates[k].renders) =>
            \E w \in DOMAIN cli.written :
                /\ cli.written[w].template = k
                /\ cli.written[w].file.by = "Md2docxPostprocessor"
                /\ cli.written[w].file.base_path = OutputDirectory
                /\ Exists(OnlyBelowOutput,
                          ImagePath(OnlyBelowOutput, cli.written[w].file.base_path, "pic.png"))

\* The templates of the "Processing template" lines of the log, in the
\* order of the log.
Attempted ==
    LET lines == SelectSeq(cli.log, LAMBDA line : line.level = "info")
    IN [l \in DOMAIN lines |-> lines[l].template]

\* The template fails: its file is missing, Mako raises, or the
\* postprocessor raises.
Fails(k) ==
    InstantiateBody(cli.templates[k], k, cli.type, OutputDirectory).error # "None"

SeparatorOf(pair) == CHOOSE k \in DOMAIN pair : pair[k] = "="

\* The pair has one separator and a name that is not blank.
WellFormed(pair) ==
    /\ Count(pair, "=") = 1
    /\ \E k \in 1..(SeparatorOf(pair) - 1) : ~IsSpace(pair[k])

NameOf(pair) == Strip(SubSeq(pair, 1, SeparatorOf(pair) - 1))

ValueOf(pair) == Strip(SubSeq(pair, SeparatorOf(pair) + 1, Len(pair)))

\* The last pair that names the name.
LastPairOf(name) ==
    CHOOSE k \in DOMAIN values.args :
        /\ NameOf(values.args[k]) = name
        /\ \A l \in DOMAIN values.args : NameOf(values.args[l]) = name => l <= k

\* C30: get_values_dictionary returns the empty dictionary for a missing
\* or empty list; it raises ValueError, and returns no dictionary, when a
\* pair has not exactly one separator or has a blank name; otherwise it
\* returns the dictionary of the trimmed names, each with the trimmed value
\* of the last pair that names it, an empty value accepted.
C30_ValuesDictionary ==
    values.pc # "call" =>
        IF ~values.given \/ values.args = <<>>
        THEN values.pc = "returned" /\ values.result = EmptyDictionary
        ELSE IF \E k \in DOMAIN values.args : ~WellFormed(values.args[k])
        THEN values.pc = "raised" /\ values.error = "ValueError"
        ELSE /\ values.pc = "returned"
             /\ DOMAIN values.result = {NameOf(values.args[k]) : k \in DOMAIN values.args}
             /\ \A name \in DOMAIN values.result :
                   values.result[name] = ValueOf(values.args[LastPairOf(name)])

\* C30's case: a dictionary returned for two pairs of one name, the first
\* with a value and the second with an empty one.
C30_Witness ==
    /\ values.pc = "returned"
    /\ Len(values.args) = 2
    /\ NameOf(values.args[1]) = NameOf(values.args[2])
    /\ ValueOf(values.args[1]) # <<>>
    /\ values.result[NameOf(values.args[1])] = <<>>

====
